---- MODULE Spec2Model ----
(***************************************************************************)
(* The movie catalog service: the five route handlers of                   *)
(* src/src/routes/movies.py (list, create, detail, delete, update) acting  *)
(* on the relational store (Movie, Country, Genre, Actor, Language).       *)
(* Every request runs to completion before the next one starts (one        *)
(* transactional session per request), so each handler is one action.      *)
(*                                                                         *)
(* Values are strings: names, dates, scores, amounts and codes are drawn   *)
(* from small sets of validated inputs, and Python's None is the string    *)
(* None.  Request validation (pydantic, Query(ge=, le=)) happens before    *)
(* the handlers run, so the actions draw their inputs from valid requests. *)
(***************************************************************************)
EXTENDS Integers, Sequences, FiniteSets, TLC

\* ---------------------------------------------------------------- bounds
MaxMovies == 3          \* movie identifiers are 1..MaxMovies
MaxPage == 3            \* largest page number requested
MaxPerPage == 3         \* largest per_page requested (never above PerPageLimit)

\* ------------------------------------------------------ program constants
PerPageLimit == 20      \* per_page: Query(ge=1, le=20)

\* Python's None: where a string is expected, and where a row or a URL is.
None == "None"
NoRow == [none |-> TRUE]
base_url == "/api/v1/theater/movies/"

MovieStatusEnum == {"RELEASED", "POST_PRODUCTION", "IN_PRODUCTION"}

\* MovieStatusEnum member -> its .value
EnumValue(e) ==
    CASE e = "RELEASED" -> "Released"
      [] e = "POST_PRODUCTION" -> "Post Production"
      [] e = "IN_PRODUCTION" -> "In Production"

\* The updatable fields: the fields of MovieUpdateRequest.
UpdateFields == {"name", "date", "score", "overview", "status", "budget", "revenue"}

\* ------------------------------------------------------------ input sets
MovieIds == 1..MaxMovies
Names == {"Dune", "Alien"}
Dates == {"2021-10-22", "1979-05-25"}
Scores == {"82", "90"}
Amounts == {"165000000", "400000000"}
Codes == {"USA", "GBR"}

Min(a, b) == IF a < b THEN a ELSE b

Range(s) == {s[i] : i \in 1..Len(s)}

\* ----------------------------------------------------------------- state
VARIABLES
    movies,      \* Movie rows, each with its country_id and membership lists
    countries,   \* Country rows [id, code, name]
    genres,      \* Genre rows [id, name]
    actors,      \* Actor rows [id, name]
    languages,   \* Language rows [id, name]
    resp         \* the last request and its response: [op, status, arg, data, body]

vars == <<movies, countries, genres, actors, languages, resp>>
store == <<movies, countries, genres, actors, languages>>

Ids(table) == {r.id : r \in table}

\* Identifier the store assigns to a row added to a table whose rows are
\* never deleted.  (A new Movie gets any identifier that no stored movie has.)
NextId(table) == Cardinality(table) + 1

\* ------------------------------------------------------- store constraints
\* The tables are declared in database.models, which the handlers import.
\* The data model gives them these constraints: the columns of a Movie row
\* hold values (only Country.name is optional), and no two Movie rows share
\* the same (name, date) pair.  A commit that would break one fails, the
\* failure is not handled, and the request ends as a server error with the
\* session's changes discarded.  (Country codes and Genre, Actor and Language
\* names are unique too; the handlers look a row up before they insert one,
\* so no commit of theirs meets that constraint.)
NullColumns(ms) == {f \in UpdateFields : \E m \in ms : m[f] = None}

\* A Movie table without the uniqueness constraint.
UniqueNameDateOff(ms) == TRUE

\* No two Movie rows share the same (name, date) pair.
UniqueNameDate(ms) ==
    \A m1, m2 \in ms : (m1.name = m2.name /\ m1.date = m2.date) => m1.id = m2.id

\* What the store accepts at commit.
CommitOK(ms) == NullColumns(ms) = {} /\ UniqueNameDate(ms)

\* The failure of a rejected commit; it fails the request (status 500).
CommitError(ms) ==
    IF NullColumns(ms) # {}
    THEN [error |-> "NOT NULL constraint failed", columns |-> NullColumns(ms)]
    ELSE [error |-> "UNIQUE constraint failed", columns |-> {"name", "date"}]

\* ------------------------------------------------------------- helpers
\* A get-or-create that inserts without looking the name up.
GetOrCreateAlways(table, name) ==
    LET instance == [id |-> NextId(table), name |-> name]
    IN  [table |-> table \cup {instance}, id |-> instance.id]

\* get_or_create_related_instance: the row named name, added when absent.
get_or_create_related_instance(table, name) ==
    LET found == {r \in table : r.name = name}
    IN  IF found # {}
        THEN [table |-> table, id |-> (CHOOSE r \in found : TRUE).id]
        ELSE LET instance == [id |-> NextId(table), name |-> name]
             IN  [table |-> table \cup {instance}, id |-> instance.id]

\* The list comprehensions of create_movie: one call per name, in order.
RECURSIVE ResolveAll(_, _)
ResolveAll(table, names) ==
    IF names = <<>>
    THEN [table |-> table, ids |-> <<>>]
    ELSE LET first == get_or_create_related_instance(table, Head(names))
             rest == ResolveAll(first.table, Tail(names))
         IN  [table |-> rest.table, ids |-> <<first.id>> \o rest.ids]

RowOf(table, id) == CHOOSE r \in table : r.id = id

\* get_movie_by_id on a store: the movie with its relations loaded, or NoRow.
get_movie_by_id(movie_id, ms, cs, gs, as, ls) ==
    LET found == {m \in ms : m.id = movie_id}
    IN  IF found = {}
        THEN NoRow
        ELSE LET m == CHOOSE x \in found : TRUE
             IN  [id |-> m.id, name |-> m.name, date |-> m.date,
                  score |-> m.score, overview |-> m.overview,
                  status |-> m.status, budget |-> m.budget,
                  revenue |-> m.revenue,
                  country |-> RowOf(cs, m.country_id),
                  genres |-> [i \in 1..Len(m.genres) |-> RowOf(gs, m.genres[i])],
                  actors |-> [i \in 1..Len(m.actors) |-> RowOf(as, m.actors[i])],
                  languages |-> [i \in 1..Len(m.languages) |-> RowOf(ls, m.languages[i])]]

\* Integer division in place of the ceiling.
CeilFloor(total_items, per_page) == total_items \div per_page

\* math.ceil(total_items / per_page)
Ceil(total_items, per_page) ==
    IF total_items % per_page = 0
    THEN total_items \div per_page
    ELSE (total_items \div per_page) + 1

\* The rows ordered by id ascending.
RECURSIVE OrderByIdAsc(_)
OrderByIdAsc(ms) ==
    IF ms = {}
    THEN <<>>
    ELSE LET low == CHOOSE m \in ms : \A o \in ms : o.id >= m.id
         IN  <<low>> \o OrderByIdAsc(ms \ {low})

\* order_by(MovieModel.id.desc()): the rows as a sequence, largest id first.
RECURSIVE OrderByIdDesc(_)
OrderByIdDesc(ms) ==
    IF ms = {}
    THEN <<>>
    ELSE LET top == CHOOSE m \in ms : \A o \in ms : o.id <= m.id
         IN  <<top>> \o OrderByIdDesc(ms \ {top})

\* .offset(offset).limit(per_page) of a sequence of rows
OffsetLimit(rows, offset, per_page) ==
    IF offset >= Len(rows)
    THEN <<>>
    ELSE SubSeq(rows, offset + 1, Min(offset + per_page, Len(rows)))

\* MovieShortResponse of a row
Short(m) ==
    [id |-> m.id, name |-> m.name, date |-> m.date, score |-> m.score,
     overview |-> m.overview]

\* f"{base_url}?page={page}&per_page={per_page}"
Url(page, per_page) == [path |-> base_url, page |-> page, per_page |-> per_page]

NoBody == <<>>

\* A response, with the request it answers: arg is the request's path or
\* query arguments and data its JSON body.
Response(op, status, arg, data, body) ==
    [op |-> op, status |-> status, arg |-> arg, data |-> data, body |-> body]

\* ---------------------------------------------------------------- handlers
Init ==
    /\ movies = {}
    /\ countries = {}
    /\ genres = {}
    /\ actors = {}
    /\ languages = {}
    /\ resp = Response("none", 0, 0, NoBody, NoBody)

\* GET /movies/?page=&per_page=
get_movies_list(page, per_page) ==
    LET offset == (page - 1) * per_page
        total_items == Cardinality(movies)
        total_pages == Ceil(total_items, per_page)
        rows == OffsetLimit(OrderByIdDesc(movies), offset, per_page)
        prev_page == IF page > 1 THEN Url(page - 1, per_page) ELSE NoRow
        next_page == IF page < total_pages THEN Url(page + 1, per_page) ELSE NoRow
    IN  /\ resp' =
            IF total_items = 0 \/ rows = <<>>
            THEN Response("list", 404, <<page, per_page>>, NoBody, NoBody)
            ELSE Response("list", 200, <<page, per_page>>, NoBody,
                          [movies |-> [i \in 1..Len(rows) |-> Short(rows[i])],
                           prev_page |-> prev_page,
                           next_page |-> next_page,
                           total_pages |-> total_pages,
                           total_items |-> total_items])
        /\ UNCHANGED store

\* A create without the duplicate check.
DuplicateQueryNone(movie_data) == {}

\* The duplicate query of create_movie: the rows of this name and date.
duplicate_query(movie_data) ==
    {m \in movies : m.name = movie_data.name /\ m.date = movie_data.date}

\* A create that never finds the Country.
CountryQueryNone(code) == {}

\* The country query of create_movie: the rows of this code.
country_query(code) == {c \in countries : c.code = code}

\* POST /movies/
create_movie(movie_data) ==
    LET duplicate == duplicate_query(movie_data)
        country_found == country_query(movie_data.country)
        country ==
            IF country_found = {}
            THEN [id |-> NextId(countries), code |-> movie_data.country, name |-> None]
            ELSE CHOOSE c \in country_found : TRUE
        countries1 == countries \cup {country}
        genres_list == ResolveAll(genres, movie_data.genres)
        actors_list == ResolveAll(actors, movie_data.actors)
        languages_list == ResolveAll(languages, movie_data.languages)
    IN  IF Cardinality(duplicate) > 1
        THEN \* scalar_one_or_none raises MultipleResultsFound
             /\ resp' = Response("create", 500, 0, movie_data, [error |-> "MultipleResultsFound"])
             /\ UNCHANGED store
        ELSE IF duplicate # {}
        THEN /\ resp' = Response("create", 409, 0, movie_data,
                                 [name |-> movie_data.name, date |-> movie_data.date])
             /\ UNCHANGED store
        ELSE \E id \in MovieIds \ Ids(movies) :
             LET new_movie ==
                     [id |-> id,
                      name |-> movie_data.name,
                      date |-> movie_data.date,
                      score |-> movie_data.score,
                      overview |-> movie_data.overview,
                      status |-> EnumValue(movie_data.status),
                      budget |-> movie_data.budget,
                      revenue |-> movie_data.revenue,
                      country_id |-> country.id,
                      genres |-> genres_list.ids,
                      actors |-> actors_list.ids,
                      languages |-> languages_list.ids]
                 movies1 == movies \cup {new_movie}
             IN  IF CommitOK(movies1)
                 THEN /\ movies' = movies1
                      /\ countries' = countries1
                      /\ genres' = genres_list.table
                      /\ actors' = actors_list.table
                      /\ languages' = languages_list.table
                      /\ resp' = Response("create", 201, id, movie_data,
                                          get_movie_by_id(id, movies1, countries1,
                                                          genres_list.table,
                                                          actors_list.table,
                                                          languages_list.table))
                 ELSE \* the commit fails and the session is discarded
                      /\ resp' = Response("create", 500, 0, movie_data, CommitError(movies1))
                      /\ UNCHANGED store

\* GET /movies/{movie_id}/
get_movie_details(movie_id) ==
    LET movie == get_movie_by_id(movie_id, movies, countries, genres, actors, languages)
    IN  /\ resp' = IF movie = NoRow
                   THEN Response("detail", 404, movie_id, NoBody, NoBody)
                   ELSE Response("detail", 200, movie_id, NoBody, movie)
        /\ UNCHANGED store

\* A delete that answers without removing the row.
DeleteKeepsRow(movie_id) ==
    /\ resp' = Response("delete", IF movie_id \in Ids(movies) THEN 204 ELSE 404,
                      movie_id, NoBody, NoBody)
    /\ UNCHANGED store

\* A delete that also removes the genres no other movie refers to.
DeleteCascades(movie_id) ==
    LET found == {m \in movies : m.id = movie_id}
        used == UNION {Range(m.genres) : m \in movies \ found}
    IN  IF found = {}
        THEN /\ resp' = Response("delete", 404, movie_id, NoBody, NoBody)
             /\ UNCHANGED store
        ELSE /\ movies' = movies \ found
             /\ genres' = {g \in genres : g.id \in used}
             /\ resp' = Response("delete", 204, movie_id, NoBody, NoBody)
             /\ UNCHANGED <<countries, actors, languages>>

\* DELETE /movies/{movie_id}/
delete_movie(movie_id) ==
    LET found == {m \in movies : m.id = movie_id}
    IN  IF found = {}
        THEN /\ resp' = Response("delete", 404, movie_id, NoBody, NoBody)
             /\ UNCHANGED store
        ELSE /\ movies' = movies \ found
             /\ resp' = Response("delete", 204, movie_id, NoBody, NoBody)
             /\ UNCHANGED <<countries, genres, actors, languages>>

\* A field of a MovieUpdateRequest that the request does not carry.
Unset == "<unset>"

\* model_dump(exclude_unset=True): the fields the request carries.
model_dump(movie_data) ==
    LET keys == {k \in UpdateFields : movie_data[k] # Unset}
    IN  [k \in keys |-> movie_data[k]]

\* An update that stores the enum member as it came.
ConvertStatusSkipped(dumped) == dumped

\* The enum conversion of update_movie: a status that is not None becomes its value.
convert_status(dumped) ==
    [k \in DOMAIN dumped |->
        IF k = "status" /\ dumped[k] # None THEN EnumValue(dumped[k]) ELSE dumped[k]]

\* A setattr loop that passes over budget.
ApplySkipsBudget(movie, update_data) ==
    [f \in DOMAIN movie |->
        IF f \in DOMAIN update_data /\ f # "budget" THEN update_data[f] ELSE movie[f]]

\* The setattr loop of update_movie.
apply_updates(movie, update_data) ==
    [f \in DOMAIN movie |->
        IF f \in DOMAIN update_data THEN update_data[f] ELSE movie[f]]

\* PATCH /movies/{movie_id}/
update_movie(movie_id, movie_data) ==
    LET found == {m \in movies : m.id = movie_id}
    IN  IF found = {}
        THEN /\ resp' = Response("update", 404, movie_id, movie_data, NoBody)
             /\ UNCHANGED store
        ELSE LET movie == CHOOSE m \in found : TRUE
                 update_data == convert_status(model_dump(movie_data))
                 movies1 == (movies \ found) \cup {apply_updates(movie, update_data)}
             IN  IF CommitOK(movies1)
                 THEN /\ movies' = movies1
                      /\ resp' = Response("update", 200, movie_id, movie_data, NoBody)
                      /\ UNCHANGED <<countries, genres, actors, languages>>
                 ELSE \* the commit fails and the session is discarded
                      /\ resp' = Response("update", 500, movie_id, movie_data, CommitError(movies1))
                      /\ UNCHANGED store

\* ------------------------------------------------------- request sets
Pages == 1..MaxPage
PerPages == 1..Min(MaxPerPage, PerPageLimit)

\* MovieCreateRequest values; score, overview, budget and revenue are fixed.
CreateRequest(names, dates, statuses, codes, genre_lists, actor_lists, language_lists) ==
    [name : names, date : dates, score : {"82"}, overview : {"o1"},
     status : statuses, budget : {"165000000"}, revenue : {"400000000"},
     country : codes, genres : genre_lists, actors : actor_lists,
     languages : language_lists]

\* MovieUpdateRequest values: every field is Unset, None or a value.
UpdateRequest(names, dates, scores, overviews, statuses, budgets, revenues) ==
    [name : names, date : dates, score : scores, overview : overviews,
     status : statuses, budget : budgets, revenue : revenues]

\* A MovieUpdateRequest that carries the single field k with value v.
Only(k, v) == [f \in UpdateFields |-> IF f = k THEN v ELSE Unset]

\* ------------------------------------------------- specification Spec
\* The five handlers; movies differ in name and date only.
CreateReqs ==
    CreateRequest(Names, Dates, {"RELEASED"}, {"USA"},
                  {<<"Sci-Fi">>}, {<<"Actor A">>}, {<<"English">>})

UpdateReqs ==
    UpdateRequest(Names \cup {Unset, None}, Dates \cup {Unset, None},
                  {Unset}, {Unset}, {Unset}, {Unset}, {Unset})

Create == \E movie_data \in CreateReqs : create_movie(movie_data)
Update == \E movie_id \in MovieIds, movie_data \in UpdateReqs : update_movie(movie_id, movie_data)
Delete == \E movie_id \in MovieIds : delete_movie(movie_id)
Detail == \E movie_id \in MovieIds : get_movie_details(movie_id)
List == \E page \in Pages, per_page \in PerPages : get_movies_list(page, per_page)

Next == Create \/ Update \/ Delete \/ Detail \/ List

Spec == Init /\ [][Next]_vars

\* ------------------------------------------- specification SpecUpdate
\* Partial updates of every field; the movies are Dune and Alien of one date.
UpdCreateReqs ==
    CreateRequest(Names, {"2021-10-22"}, MovieStatusEnum, {"USA"},
                  {<<"Sci-Fi">>}, {<<"Actor A">>}, {<<"English">>})

UpdUpdateReqs ==
    {Only("name", v) : v \in Names \cup {None}}
    \cup {Only("date", v) : v \in {"2021-10-22", None}}
    \cup {Only("score", v) : v \in Scores \cup {None}}
    \cup {Only("overview", v) : v \in {"o1", None}}
    \cup {Only("status", v) : v \in MovieStatusEnum \cup {None}}
    \cup {Only("budget", v) : v \in Amounts \cup {None}}
    \cup {Only("revenue", v) : v \in {"400000000", None}}
    \cup UpdateRequest({Unset}, {Unset}, {Unset}, {Unset}, {Unset}, {Unset}, {Unset})
    \cup UpdateRequest({"Alien"}, {"2021-10-22"}, {"90"}, {"o1"}, {"POST_PRODUCTION", None},
                       {"400000000"}, {"400000000"})

UpdCreate == \E movie_data \in UpdCreateReqs : create_movie(movie_data)
UpdUpdate == \E movie_id \in MovieIds, movie_data \in UpdUpdateReqs : update_movie(movie_id, movie_data)

NextUpdate == UpdCreate \/ UpdUpdate \/ Delete \/ Detail

SpecUpdate == Init /\ [][NextUpdate]_vars

\* ---------------------------------------------- specification SpecRel
\* Creates that share and repeat countries, genres, actors and languages.
GenreLists == {<<>>, <<"Sci-Fi">>, <<"Sci-Fi", "Sci-Fi">>, <<"Horror", "Sci-Fi">>}

RelCreateReqs ==
    CreateRequest(Names, {"2021-10-22"}, {"RELEASED"}, Codes,
                  GenreLists, {<<"Actor A">>}, {<<"English">>})
    \cup CreateRequest({"Dune"}, {"2021-10-22"}, {"IN_PRODUCTION"}, {"USA"},
                       {<<>>}, {<<"Actor A", "Actor A">>}, {<<"English", "English">>})

RelCreate == \E movie_data \in RelCreateReqs : create_movie(movie_data)

NextRel == RelCreate \/ Delete \/ Detail

SpecRel == Init /\ [][NextRel]_vars

\* ================================================================ claims
RowsOf(ms, movie_id) == {m \in ms : m.id = movie_id}

C2_DuplicateCreateRejected ==
    [][(/\ resp'.op = "create"
        /\ \E m \in movies : m.name = resp'.data.name /\ m.date = resp'.data.date)
       => (resp'.status = 409 /\ UNCHANGED store)]_vars

\* A create was answered 409 for the pair of a stored movie whose country
\* is not the one the request names.
C2_Witness ==
    /\ resp.op = "create"
    /\ resp.status = 409
    /\ \E m \in movies, c \in countries :
           /\ m.name = resp.data.name /\ m.date = resp.data.date
           /\ c.id = m.country_id /\ c.code # resp.data.country

\* The least n with n * per_page >= total_items.
LeastCover(total_items, per_page) ==
    CHOOSE n \in 0..total_items :
        /\ n * per_page >= total_items
        /\ \A k \in 0..total_items : k * per_page >= total_items => n <= k

\* C3: a successful list returns at most per_page movies, has no prev_page
\* iff page = 1, no next_page iff page = total_pages, and
\* total_pages = ceil(total_items / per_page) with total_items the row count.
C3_Pagination ==
    (resp.op = "list" /\ resp.status = 200) =>
        LET page == resp.arg[1]
            per_page == resp.arg[2]
        IN  /\ Len(resp.body.movies) <= per_page
            /\ (resp.body.prev_page = NoRow) <=> (page = 1)
            /\ (resp.body.next_page = NoRow) <=> (page = resp.body.total_pages)
            /\ resp.body.total_items = Cardinality(movies)
            /\ resp.body.total_pages = LeastCover(Cardinality(movies), per_page)

\* A middle page of a three-page listing was returned.
C3_Witness ==
    /\ resp.op = "list"
    /\ resp.status = 200
    /\ resp.arg = <<2, 1>>
    /\ resp.body.total_pages = 3
    /\ resp.body.prev_page # NoRow
    /\ resp.body.next_page # NoRow

\* The number of stored movies whose id is at least that of m: m's position
\* when the movies are ordered by id descending.
Position(m) == Cardinality({o \in movies : o.id >= m.id})

\* C4: the list is answered 404 exactly when the catalog is empty or
\* (page - 1) * per_page >= total_items; otherwise it is answered 200 with
\* the movies at positions offset+1 .. offset+per_page of the id-descending order.
C4_ListSlice ==
    (resp.op = "list") =>
        LET page == resp.arg[1]
            per_page == resp.arg[2]
            offset == (page - 1) * per_page
            total == Cardinality(movies)
        IN  IF total = 0 \/ offset >= total
            THEN resp.status = 404
            ELSE /\ resp.status = 200
                 /\ Len(resp.body.movies) = Min(per_page, total - offset)
                 /\ \A i \in 1..Len(resp.body.movies) :
                        \E m \in movies :
                            /\ Position(m) = offset + i
                            /\ resp.body.movies[i] = Short(m)

\* The second page of two movies each was returned with the one remaining movie.
C4_Witness ==
    /\ resp.op = "list"
    /\ resp.status = 200
    /\ resp.arg = <<2, 2>>
    /\ Cardinality(movies) = 3
    /\ Len(resp.body.movies) = 1
    /\ resp.body.movies[1].id = 1

\* The number of entries of a list of rows that carry the name of entry i.
SameName(rows, i) == Cardinality({j \in 1..Len(rows) : rows[j].name = rows[i].name})

UniqueNames(table) == \A r1, r2 \in table : r1.name = r2.name => r1 = r2

\* C5: no two Genre (Actor, Language) rows share a name, and the detail
\* returned by a create holds exactly one entry for each name it lists, also
\* when the request names an existing row or the same name twice.
C5_OneEntryPerName ==
    /\ UniqueNames(genres) /\ UniqueNames(actors) /\ UniqueNames(languages)
    /\ (resp.op = "create" /\ resp.status = 201) =>
           /\ \A i \in 1..Len(resp.body.genres) : SameName(resp.body.genres, i) = 1
           /\ \A i \in 1..Len(resp.body.actors) : SameName(resp.body.actors, i) = 1
           /\ \A i \in 1..Len(resp.body.languages) : SameName(resp.body.languages, i) = 1

\* The part of C5 about the tables: no two rows of a table share a name.
C5_UniqueRows ==
    UniqueNames(genres) /\ UniqueNames(actors) /\ UniqueNames(languages)

\* C6: a delete of an absent id is answered 404 and changes nothing; a delete
\* of a stored id is answered 204 and removes it; a detail, update or delete
\* of an absent id is answered 404; an absent id becomes stored only by a
\* create that is assigned it.
C6_DeleteThenNotFound ==
    [][/\ (resp'.op = "delete") =>
              IF resp'.arg \in Ids(movies)
              THEN resp'.status = 204 /\ resp'.arg \notin Ids(movies')
              ELSE resp'.status = 404 /\ UNCHANGED store
       /\ (resp'.op \in {"detail", "update", "delete"} /\ resp'.arg \notin Ids(movies))
              => (resp'.status = 404 /\ UNCHANGED store)
       /\ \A movie_id \in Ids(movies') \ Ids(movies) :
              resp'.op = "create" /\ resp'.status = 201 /\ resp'.arg = movie_id]_vars

\* A detail of an id that is not stored, while a higher id is, was answered 404.
C6_Witness ==
    /\ resp.op = "detail"
    /\ resp.status = 404
    /\ resp.arg \notin Ids(movies)
    /\ \E m \in movies : m.id > resp.arg

\* The value an update stores for field f when the request carries v.
Stored(f, v) ==
    IF f = "status" /\ v = "RELEASED" THEN "Released"
    ELSE IF f = "status" /\ v = "POST_PRODUCTION" THEN "Post Production"
    ELSE IF f = "status" /\ v = "IN_PRODUCTION" THEN "In Production"
    ELSE v

\* C7: a successful update of movie m stores the fields the request carries
\* and leaves m's other fields, m's country and relations, every other movie
\* and the related tables unchanged.
C7_UpdateFrame ==
    [][(resp'.op = "update" /\ resp'.status = 200) =>
          /\ Cardinality(RowsOf(movies, resp'.arg)) = 1
          /\ Cardinality(RowsOf(movies', resp'.arg)) = 1
          /\ LET old == CHOOSE m \in movies : m.id = resp'.arg
                 new == CHOOSE m \in movies' : m.id = resp'.arg
             IN  /\ \A f \in UpdateFields :
                        new[f] = IF resp'.data[f] = Unset
                                 THEN old[f]
                                 ELSE Stored(f, resp'.data[f])
                 /\ new.id = old.id
                 /\ new.country_id = old.country_id
                 /\ new.genres = old.genres
                 /\ new.actors = old.actors
                 /\ new.languages = old.languages
          /\ movies' \ RowsOf(movies', resp'.arg) = movies \ RowsOf(movies, resp'.arg)
          /\ UNCHANGED <<countries, genres, actors, languages>>]_vars

\* An update that carried only a score was answered 200 and the movie holds
\* that score, next to another stored movie.
C7_Witness ==
    /\ resp.op = "update"
    /\ resp.status = 200
    /\ resp.data = Only("score", "90")
    /\ Cardinality(movies) = 2
    /\ \E m \in movies : m.id = resp.arg /\ m.score = "90" /\ m.budget = "400000000"

C9_RelatedRowsStay ==
    [][/\ (resp'.op = "delete") =>
              /\ UNCHANGED <<countries, genres, actors, languages>>
              /\ movies' = movies \ RowsOf(movies, resp'.arg)
       /\ countries \subseteq countries'
       /\ genres \subseteq genres'
       /\ actors \subseteq actors'
       /\ languages \subseteq languages']_vars

\* The last movie was deleted and the rows it referred to are still stored.
C9_Witness ==
    /\ resp.op = "delete"
    /\ resp.status = 204
    /\ movies = {}
    /\ Cardinality(genres) = 2
    /\ Cardinality(countries) = 2
    /\ actors # {}
    /\ languages # {}

\* C10: a successful create with country code c reuses the Country of code c
\* when there is one and otherwise adds one row with code c and no name; the
\* returned detail has country.code = c; every stored movie has exactly one
\* Country and no two Country rows share a code.
C10_OneCountry ==
    [][/\ (resp'.op = "create" /\ resp'.status = 201) =>
              /\ resp'.body.country.code = resp'.data.country
              /\ resp'.body.country \in countries'
              /\ \E m \in movies' : m.id = resp'.arg /\ m.country_id = resp'.body.country.id
              /\ IF \E c \in countries : c.code = resp'.data.country
                 THEN countries' = countries
                 ELSE \E id \in 1..(Cardinality(countries) + 1) :
                          /\ id \notin Ids(countries)
                          /\ countries' = countries \cup
                                 {[id |-> id, code |-> resp'.data.country, name |-> None]}
       /\ \A m \in movies' : Cardinality({c \in countries' : c.id = m.country_id}) = 1
       /\ \A c1, c2 \in countries' : c1.code = c2.code => c1 = c2]_vars

\* A second movie was created with the code of the first one's Country and
\* the one Country row is shared.
C10_Witness ==
    /\ resp.op = "create"
    /\ resp.status = 201
    /\ Cardinality(movies) = 2
    /\ Cardinality(countries) = 1
    /\ \A m \in movies : m.country_id = resp.body.country.id
====
